---------------------------- MODULE Spec2Model ----------------------------
(***************************************************************************)
(* PlexPulse: the history aggregation and reporting engine                 *)
(* (src/services/dataProcessing.ts).                                       *)
(*                                                                         *)
(* Representation.                                                         *)
(*   - A name (title, series title, ...) is a natural number; 0 is the     *)
(*     empty / absent string, which JavaScript treats as falsy.  Names are *)
(*     opaque: none is the name of a member of Object.prototype (such as   *)
(*     'constructor'), so a Record keyed by names is a finite map kept in  *)
(*     insertion order.                                                    *)
(*   - A Date is a record [tag, time]: tag "valid" with time in seconds    *)
(*     since 1970-01-01 00:00 local time, tag "invalid" (new Date(NaN)),   *)
(*     or tag "missing" (undefined).  Local time has no daylight-saving    *)
(*     transitions.                                                        *)
(*   - durationMinutes is a record [tag, val]: "number" with an integer    *)
(*     val, "NaN", or "undefined".  Arithmetic on minutes is exact; the    *)
(*     code adds duration / 60 in double precision, whose sum can fall an  *)
(*     ulp short of an exact half (1, 88 and 1 minutes add up to           *)
(*     1.4999999999999998 hours).                                          *)
(*   - A formatted key (YYYY-MM, YYYY-MM-DD) is the sequence of its        *)
(*     characters: a digit is its value, '-' is Dash.                      *)
(*   - bingeScore is kept in tenths (bingeScoreTenths = 10 * bingeScore).  *)
(***************************************************************************)
EXTENDS Integers, Sequences, FiniteSets, TLC

(* ------------------------------ bounds --------------------------------- *)

\* free events appended one at a time to the input list
MaxEvents == 3

\* size of the largest pre-loaded library of distinct titles
MaxLibrary == 51

\* length of the longest run of identical events appended at once
MaxBurst == 11

\* free events appended after a library or a burst
MaxExtra == 1

\* events in the list handed to generateMonthlyHeatmap
MaxHeatmapEvents == 2

\* events in the list handed to the Reports view
MaxNavEvents == 3

\* the seeds of Math.random() run from 0 to MaxSeed
MaxSeed == 1

\* a draw of Math.random() is one of the fractions k / RandomSteps, 0 <= k < RandomSteps
RandomSteps == 1000

(* ------------------------- program constants --------------------------- *)

TopN == 50

BingeCap == 10

OneDay == 86400

StreakTolerance == 10000

UnknownShow == 900

NoneItem == 901

MockCount == 800

MockDays == 400

(* ------------------------------ helpers -------------------------------- *)

Min(a, b) == IF a < b THEN a ELSE b

Max(a, b) == IF a > b THEN a ELSE b

\* Math.round(n / d) for an integer n and d > 0: half rounds towards +Infinity
RoundDiv(n, d) == (2 * n + d) \div (2 * d)

RECURSIVE SumSeq(_)
SumSeq(s) == IF s = <<>> THEN 0 ELSE Head(s) + SumSeq(Tail(s))

\* Array.prototype.slice(0, n)
Slice(s, n) == SubSeq(s, 1, Min(n, Len(s)))

RECURSIVE LexLess(_, _)
\* lexicographic order on sequences of integers
LexLess(a, b) ==
  IF b = <<>> THEN FALSE
  ELSE IF a = <<>> THEN TRUE
  ELSE IF Head(a) # Head(b) THEN Head(a) < Head(b)
  ELSE LexLess(Tail(a), Tail(b))

RECURSIVE InsertSorted(_, _)
\* p = [key, elem] goes after every entry whose key is not greater than its own
InsertSorted(p, s) ==
  IF s = <<>> THEN <<p>>
  ELSE IF LexLess(p.key, Head(s).key) THEN <<p>> \o s
  ELSE <<Head(s)>> \o InsertSorted(p, Tail(s))

RECURSIVE SortFrom(_, _)
SortFrom(s, acc) ==
  IF s = <<>> THEN acc
  ELSE SortFrom(Tail(s), InsertSorted(Head(s), acc))

\* Array.prototype.sort((a, b) => cmp(a, b)) where cmp(a, b) < 0 exactly when
\* keys[i] of a is lexicographically less than that of b.  The sort is stable:
\* elements that compare equal keep their order.
StableSort(s, keys) ==
  LET sorted == SortFrom([i \in 1..Len(s) |-> [key |-> keys[i], elem |-> s[i]]], <<>>)
  IN  [i \in 1..Len(s) |-> sorted[i].elem]

(* ------------------------------- dates --------------------------------- *)

Dash == 0 - 1

\* days from 1970-01-01 to the civil date y-m-d (m in 1..12)
DaysFromCivil(y, m, d) ==
  LET yy  == IF m <= 2 THEN y - 1 ELSE y
      era == yy \div 400
      yoe == yy - era * 400
      mp  == IF m > 2 THEN m - 3 ELSE m + 9
      doy == (153 * mp + 2) \div 5 + d - 1
      doe == yoe * 365 + yoe \div 4 - yoe \div 100 + doy
  IN  era * 146097 + doe - 719468

\* the civil date [y, m, d] (m in 1..12) of day number z since 1970-01-01
CivilFromDays(z) ==
  LET zz  == z + 719468
      era == zz \div 146097
      doe == zz - era * 146097
      yoe == (doe - doe \div 1460 + doe \div 36524 - doe \div 146096) \div 365
      doy == doe - (365 * yoe + yoe \div 4 - yoe \div 100)
      mp  == (5 * doy + 2) \div 153
      d   == doy - (153 * mp + 2) \div 5 + 1
      m   == IF mp < 10 THEN mp + 3 ELSE mp - 9
  IN  [y |-> (yoe + era * 400) + (IF m <= 2 THEN 1 ELSE 0), m |-> m, d |-> d]

MissingDate == [tag |-> "missing", time |-> 0]

InvalidDate == [tag |-> "invalid", time |-> 0]

\* new Date(y, monthIndex, d, h)
MkDate(y, monthIndex, d, h) ==
  [tag |-> "valid", time |-> DaysFromCivil(y, monthIndex + 1, d) * OneDay + h * 3600]

\* item.date && !isNaN(item.date.getTime())
HasValidDate(item) == item.date.tag = "valid"

DayNumber(date) == date.time \div OneDay

GetFullYear(date) == CivilFromDays(DayNumber(date)).y

\* 0 = January
GetMonth(date) == CivilFromDays(DayNumber(date)).m - 1

GetDate(date) == CivilFromDays(DayNumber(date)).d

GetHours(date) == (date.time % OneDay) \div 3600

\* 0 = Sunday; 1970-01-01 was a Thursday
GetDay(date) == (DayNumber(date) + 4) % 7

\* a > b on Date operands: false as soon as either side converts to NaN
DateGreater(a, b) == a.tag = "valid" /\ b.tag = "valid" /\ a.time > b.time


\* mutant: String(n) without padStart
NoPad(n) == IF n < 10 THEN <<n>> ELSE <<n \div 10, n % 10>>

\* String(n).padStart(2, '0') for 0 <= n <= 99
Pad2(n) == <<n \div 10, n % 10>>

\* String(y) for a four-digit year
YearDigits(y) == <<y \div 1000, (y \div 100) % 10, (y \div 10) % 10, y % 10>>

\* `${getFullYear()}-${String(getMonth() + 1).padStart(2, '0')}`
MonthKeyOf(y, monthIndex) == YearDigits(y) \o <<Dash>> \o Pad2(monthIndex + 1)

\* `${getFullYear()}-${MM}-${DD}`
DateKeyOf(date) ==
  MonthKeyOf(GetFullYear(date), GetMonth(date)) \o <<Dash>> \o Pad2(GetDate(date))

\* Date.prototype.toDateString(): weekday, month, day of month, year
ToDateString(date) ==
  [wd |-> GetDay(date), m |-> GetMonth(date), d |-> GetDate(date), y |-> GetFullYear(date)]

\* new Date(dateString).getTime(): local midnight of that calendar day
ParseDateString(s) == DaysFromCivil(s.y, s.m + 1, s.d) * OneDay

MonthNames ==
  <<"January", "February", "March", "April", "May", "June", "July",
    "August", "September", "October", "November", "December">>

\* toLocaleString('default', { month: 'long' })
MonthNameOf(date) == MonthNames[GetMonth(date) + 1]


\* mutant: new Date(year, monthIndex, 0).getDate(), the length of the month before
DaysInPreviousMonth(y, monthIndex) == CivilFromDays(DaysFromCivil(y, monthIndex + 1, 1) - 1).d

\* new Date(year, monthIndex + 1, 0).getDate(): the day before the first of the
\* next month
DaysInMonth(y, monthIndex) == CivilFromDays(DaysFromCivil(y, monthIndex + 2, 1) - 1).d

(* ------------------------------ events --------------------------------- *)

Num(v) == [tag |-> "number", val |-> v]

NaNDuration == [tag |-> "NaN", val |-> 0]

NoDuration == [tag |-> "undefined", val |-> 0]

Item(type, title, gp, parent, date, dur) ==
  [type |-> type, title |-> title, grandparentTitle |-> gp, parentTitle |-> parent,
   date |-> date, durationMinutes |-> dur]

(* ------------------------ processHistoryData --------------------------- *)

\* index of the entry with this name in an insertion-ordered map, 0 if none
IndexOfName(stats, name) ==
  IF \E i \in 1..Len(stats) : stats[i].name = name
  THEN CHOOSE i \in 1..Len(stats) : stats[i].name = name
  ELSE 0

\* (typeof durationMinutes === 'number' && !isNaN(durationMinutes)) ? durationMinutes : 0
DurationOf(item) ==
  IF item.durationMinutes.tag = "number" THEN item.durationMinutes.val ELSE 0


\* mutant: the default `|| 'unknown'` is missing
TypeOfRaw(item) == item.type

\* item.type || 'unknown'
TypeOf(item) == IF item.type = "" THEN "unknown" ELSE item.type


\* mutant: the play is counted inside the valid-timestamp branch
CountPlayTimedOnly(totalPlays, item) ==
  IF HasValidDate(item) THEN totalPlays + 1 ELSE totalPlays

\* mutant: an event without a numeric duration is skipped
CountPlayNumericOnly(totalPlays, item) ==
  IF item.durationMinutes.tag = "number" THEN totalPlays + 1 ELSE totalPlays

\* summary.totalPlays++
CountPlay(totalPlays, item) == totalPlays + 1

\* summary.totalDurationHours += duration / 60, kept as the exact number of minutes
AddDuration(totalMinutes, item) == totalMinutes + DurationOf(item)

\* typeCounts[type] = (typeCounts[type] || 0) + 1
CountType(typeCounts, type) ==
  LET i == IndexOfName(typeCounts, type)
  IN  IF i = 0 THEN Append(typeCounts, [name |-> type, value |-> 1])
      ELSE [typeCounts EXCEPT ![i].value = @ + 1]

\* the body shared by the movieStats and showStats updates
AddToStats(stats, name, item) ==
  LET i    == IndexOfName(stats, name)
      base == IF i = 0
              THEN Append(stats, [name |-> name, count |-> 0, totalDurationMinutes |-> 0,
                                  lastWatched |-> item.date])
              ELSE stats
      j    == IF i = 0 THEN Len(base) ELSE i
      old  == base[j]
  IN  [base EXCEPT ![j] =
         [name |-> old.name,
          count |-> old.count + 1,
          totalDurationMinutes |-> old.totalDurationMinutes + DurationOf(item),
          lastWatched |-> IF DateGreater(item.date, old.lastWatched)
                          THEN item.date ELSE old.lastWatched]]


\* mutant: parentTitle is left out of the chain, as it is at line 149
ShowNameSkipsParent(item) ==
  IF item.grandparentTitle # 0 THEN item.grandparentTitle
  ELSE IF item.title # 0 THEN item.title
  ELSE UnknownShow

\* item.grandparentTitle || item.parentTitle || item.title || "Unknown Show"
ShowNameOf(item) ==
  IF item.grandparentTitle # 0 THEN item.grandparentTitle
  ELSE IF item.parentTitle # 0 THEN item.parentTitle
  ELSE IF item.title # 0 THEN item.title
  ELSE UnknownShow

\* monthCounts[monthKey] = (monthCounts[monthKey] || 0) + 1
CountKey(counts, key) ==
  LET i == IndexOfName(counts, key)
  IN  IF i = 0 THEN Append(counts, [name |-> key, count |-> 1])
      ELSE [counts EXCEPT ![i].count = @ + 1]


\* mutant: only `item.date` is tested, not isNaN(item.date.getTime())
BucketsTouchedIfPresent(item) == item.date.tag # "missing"

\* the time buckets are touched only for an event with a valid timestamp
BucketsTouched(item) == HasValidDate(item)


\* mutant: the title is not tested
InMovieBranchAnyTitle(type, item) == type = "movie"

\* type === 'movie' && item.title
InMovieBranch(type, item) == type = "movie" /\ item.title # 0

\* the accumulators before the first event
SummaryStart ==
  [totalPlays   |-> 0,
   totalMinutes |-> 0,
   movieStats   |-> <<>>,
   showStats    |-> <<>>,
   hourCounts   |-> [h \in 0..23 |-> 0],
   dayCounts    |-> [d \in 0..6 |-> 0],
   monthCounts  |-> <<>>,
   typeCounts   |-> <<[name |-> "movie", value |-> 0], [name |-> "episode", value |-> 0],
                      [name |-> "track", value |-> 0], [name |-> "unknown", value |-> 0]>>]

\* one iteration of data.forEach
SummaryStep(acc, item) ==
  LET type == TypeOf(item)
      timed == BucketsTouched(item)
  IN  [totalPlays   |-> CountPlay(acc.totalPlays, item),
       totalMinutes |-> AddDuration(acc.totalMinutes, item),
       typeCounts   |-> CountType(acc.typeCounts, type),
       movieStats   |-> IF InMovieBranch(type, item)
                        THEN AddToStats(acc.movieStats, item.title, item)
                        ELSE acc.movieStats,
       showStats    |-> IF ~InMovieBranch(type, item) /\ type = "episode"
                        THEN AddToStats(acc.showStats, ShowNameOf(item), item)
                        ELSE acc.showStats,
       hourCounts   |-> IF timed
                        THEN [acc.hourCounts EXCEPT ![GetHours(item.date)] = @ + 1]
                        ELSE acc.hourCounts,
       dayCounts    |-> IF timed
                        THEN [acc.dayCounts EXCEPT ![GetDay(item.date)] = @ + 1]
                        ELSE acc.dayCounts,
       monthCounts  |-> IF timed
                        THEN CountKey(acc.monthCounts,
                                      MonthKeyOf(GetFullYear(item.date), GetMonth(item.date)))
                        ELSE acc.monthCounts]

RECURSIVE SummaryFold(_, _, _)
\* data.forEach(item => ...); each iteration's accumulators are computed before
\* the next iteration starts
SummaryFold(acc, data, i) ==
  IF i > Len(data) THEN acc
  ELSE LET next == SummaryStep(acc, data[i])
       IN  IF next = next THEN SummaryFold(next, data, i + 1) ELSE acc


\* mutant: the list is cut to 50 before it is sorted
TopListCutFirst(stats) ==
  LET cut == Slice(stats, TopN)
  IN  StableSort(cut, [i \in 1..Len(cut) |-> <<0 - cut[i].count>>])

\* Object.values(stats).sort((a, b) => b.count - a.count).slice(0, 50)
TopList(stats) ==
  Slice(StableSort(stats, [i \in 1..Len(stats) |-> <<0 - stats[i].count>>]), TopN)

DayLabels == <<"Sun", "Mon", "Tue", "Wed", "Thu", "Fri", "Sat">>


\* mutant: the sort is missing, the months come in order of first appearance
PlaysByMonthUnsorted(monthCounts) ==
  [i \in 1..Len(monthCounts) |->
     [month |-> monthCounts[i].name, count |-> monthCounts[i].count]]

\* Object.entries(monthCounts).map(...).sort((a, b) => a.month.localeCompare(b.month))
PlaysByMonth(monthCounts) ==
  LET entries == [i \in 1..Len(monthCounts) |->
                    [month |-> monthCounts[i].name, count |-> monthCounts[i].count]]
  IN  StableSort(entries, [i \in 1..Len(entries) |-> entries[i].month])


\* mutant: the filter on value > 0 is missing
MediaTypeDistributionUnfiltered(typeCounts) == typeCounts

\* Object.entries(typeCounts).filter(([_, value]) => value > 0)
MediaTypeDistribution(typeCounts) == SelectSeq(typeCounts, LAMBDA e : e.value > 0)

\* Math.round(summary.totalDurationHours || 0)
TotalDurationHours(totalMinutes) == RoundDiv(totalMinutes, 60)

\* the summary object as constructed, before any event is processed
EmptySummary ==
  [totalPlays            |-> 0,
   totalDurationHours    |-> 0,
   topMovies             |-> <<>>,
   topShows              |-> <<>>,
   playsByHour           |-> [i \in 1..24 |-> [hour |-> i - 1, count |-> 0]],
   playsByDayOfWeek      |-> <<>>,
   playsByMonth          |-> <<>>,
   mediaTypeDistribution |-> <<>>]

processHistoryData(data) ==
  LET acc == SummaryFold(SummaryStart, data, 1)
  IN  [totalPlays            |-> acc.totalPlays,
       totalDurationHours    |-> TotalDurationHours(acc.totalMinutes),
       topMovies             |-> TopList(acc.movieStats),
       topShows              |-> TopList(acc.showStats),
       playsByHour           |-> [i \in 1..24 |-> [hour |-> i - 1, count |-> acc.hourCounts[i - 1]]],
       playsByDayOfWeek      |-> [i \in 1..7 |-> [day |-> DayLabels[i], count |-> acc.dayCounts[i - 1]]],
       playsByMonth          |-> PlaysByMonth(acc.monthCounts),
       mediaTypeDistribution |-> MediaTypeDistribution(acc.typeCounts)]

(* -------------------------- processReports ----------------------------- *)


\* mutant: only `!item.date` is tested, not isNaN(item.date.getTime())
ReportsKeepIfPresent(item) == item.date.tag # "missing"

\* if (!item.date || isNaN(item.date.getTime())) return;
ReportsKeep(item) == HasValidDate(item)

\* years[y].push(item), creating the bucket on first use
PushTo(groups, key, item) ==
  LET i == IndexOfName(groups, key)
  IN  IF i = 0 THEN Append(groups, [name |-> key, items |-> <<item>>])
      ELSE [groups EXCEPT ![i].items = Append(@, item)]

RECURSIVE PartitionYears(_, _, _)
PartitionYears(groups, data, i) ==
  IF i > Len(data) THEN groups
  ELSE PartitionYears(
         IF ReportsKeep(data[i]) THEN PushTo(groups, GetFullYear(data[i].date), data[i])
         ELSE groups,
         data, i + 1)

\* Object.keys(years): integer keys are enumerated in ascending numeric order
YearKeys(groups) == StableSort(groups, [i \in 1..Len(groups) |-> <<groups[i].name>>])

RECURSIVE HeatmapGrid(_, _, _)
\* heatmapGrid[key] = (heatmapGrid[key] || 0) + 1 with key `${getDay()}-${getHours()}`;
\* a cell never written reads as 0
HeatmapGrid(grid, items, i) ==
  IF i > Len(items) THEN grid
  ELSE HeatmapGrid([grid EXCEPT ![<<GetDay(items[i].date), GetHours(items[i].date)>>] = @ + 1],
                   items, i + 1)


\* mutant: the hour loop stops one short (h < 23)
HeatmapDataShortHours(items) ==
  LET grid == HeatmapGrid([c \in (0..6) \X (0..23) |-> 0], items, 1)
  IN  [k \in 1..(7 * 23) |->
         [day |-> (k - 1) \div 23, hour |-> (k - 1) % 23,
          value |-> grid[<<(k - 1) \div 23, (k - 1) % 23>>]]]

\* for (d = 0; d < 7; d++) for (h = 0; h < 24; h++) heatmapData.push(...)
HeatmapData(items) ==
  LET grid == HeatmapGrid([c \in (0..6) \X (0..23) |-> 0], items, 1)
  IN  [k \in 1..(7 * 24) |->
         [day |-> (k - 1) \div 24, hour |-> (k - 1) % 24,
          value |-> grid[<<(k - 1) \div 24, (k - 1) % 24>>]]]

RECURSIVE DailyCounts(_, _, _)
DailyCounts(counts, items, i) ==
  IF i > Len(items) THEN counts
  ELSE DailyCounts(CountKey(counts, DateKeyOf(items[i].date)), items, i + 1)

\* mutant: every date is entered with a count of 1
DailyActivityOnes(items) ==
  LET counts == DailyCounts(<<>>, items, 1)
  IN  [i \in 1..Len(counts) |-> [date |-> counts[i].name, count |-> 1]]

\* Object.entries(dailyCounts).map(([date, count]) => ({ date, count }))
DailyActivity(items) ==
  LET counts == DailyCounts(<<>>, items, 1)
  IN  [i \in 1..Len(counts) |-> [date |-> counts[i].name, count |-> counts[i].count]]

RECURSIVE PartitionMonths(_, _, _, _)
PartitionMonths(groups, items, year, i) ==
  IF i > Len(items) THEN groups
  ELSE PartitionMonths(PushTo(groups, MonthKeyOf(year, GetMonth(items[i].date)), items[i]),
                       items, year, i + 1)

\* curr.durationMinutes || 0
DurationOrZero(item) ==
  IF item.durationMinutes.tag = "number" THEN item.durationMinutes.val ELSE 0

\* Math.round(items.reduce((acc, curr) => acc + (curr.durationMinutes || 0), 0) / 60),
\* then the isNaN guard
TotalHours(items) ==
  RoundDiv(SumSeq([i \in 1..Len(items) |-> DurationOrZero(items[i])]), 60)

\* i.type === 'episode' ? (i.grandparentTitle || i.title) : i.title
MonthlyNameOf(item) ==
  IF item.type = "episode"
  THEN (IF item.grandparentTitle # 0 THEN item.grandparentTitle ELSE item.title)
  ELSE item.title

RECURSIVE NameCounts(_, _, _)
NameCounts(counts, items, i) ==
  IF i > Len(items) THEN counts
  ELSE NameCounts(
         IF MonthlyNameOf(items[i]) # 0 THEN CountKey(counts, MonthlyNameOf(items[i]))
         ELSE counts,
         items, i + 1)

\* Object.entries(counts).sort((a, b) => b[1] - a[1])[0], or ['None', 0]
TopItemOf(items) ==
  LET counts == NameCounts(<<>>, items, 1)
      sorted == StableSort(counts, [i \in 1..Len(counts) |-> <<0 - counts[i].count>>])
  IN  IF Len(sorted) > 0 THEN sorted[1].name ELSE NoneItem

\* new Set(items.map(i => i.date.toDateString()))
ActiveDaysSet(items) == {ToDateString(items[i].date) : i \in 1..Len(items)}


\* mutant: the filter on the type is missing
EpisodeCountAnyType(items) == Len(items)

\* mItems.filter(i => i.type === 'episode').length
EpisodeCount(items) == Cardinality({i \in 1..Len(items) : items[i].type = "episode"})


\* mutant: the cap Math.min(10, ...) is missing
BingeScoreUncapped(items) ==
  LET days == Cardinality(ActiveDaysSet(items))
  IN  IF days > 0 THEN RoundDiv(10 * EpisodeCount(items), days) ELSE 0

\* Math.min(10, Math.round(bingeScore * 10) / 10), in tenths
BingeScoreTenths(items) ==
  LET days == Cardinality(ActiveDaysSet(items))
      raw  == IF days > 0 THEN RoundDiv(10 * EpisodeCount(items), days) ELSE 0
  IN  Min(10 * BingeCap, raw)

\* the object returned for one month
MonthlyReportOf(group, year) ==
  [monthKey         |-> group.name,
   monthName        |-> MonthNameOf(group.items[1].date),
   year             |-> year,
   totalHours       |-> TotalHours(group.items),
   topItem          |-> TopItemOf(group.items),
   topItemType      |-> "mixed",
   playCount        |-> Len(group.items),
   bingeScoreTenths |-> BingeScoreTenths(group.items)]

\* Object.keys(months).map(...).sort((a, b) => a.monthKey.localeCompare(b.monthKey))
MonthlyBreakdown(items, year) ==
  LET groups  == PartitionMonths(<<>>, items, year, 1)
      reports == [i \in 1..Len(groups) |-> MonthlyReportOf(groups[i], year)]
  IN  StableSort(reports, [i \in 1..Len(reports) |-> reports[i].monthKey])


\* mutant: the comparator is a.totalHours - b.totalHours
SortedForBusiestAscending(breakdown) ==
  StableSort(breakdown, [i \in 1..Len(breakdown) |-> <<breakdown[i].totalHours>>])

\* monthlyBreakdown.sort((a, b) => b.totalHours - a.totalHours): Array.prototype.sort
\* sorts in place, so this is also the order of the list stored in the report
SortedForBusiest(breakdown) ==
  StableSort(breakdown, [i \in 1..Len(breakdown) |-> <<0 - breakdown[i].totalHours>>])

RECURSIVE Dedup(_, _, _)
\* the insertion order of a Set built from an array
Dedup(seen, s, i) ==
  IF i > Len(s) THEN seen
  ELSE Dedup(IF \E j \in 1..Len(seen) : seen[j] = s[i] THEN seen ELSE Append(seen, s[i]),
             s, i + 1)


\* mutant: the days are not passed through a Set
UniqueDaysNoSet(items) ==
  LET times == [i \in 1..Len(items) |-> ParseDateString(ToDateString(items[i].date))]
  IN  StableSort(times, [i \in 1..Len(times) |-> <<times[i]>>])

\* Array.from(new Set(items.map(toDateString))).map(d => new Date(d).getTime()).sort((a, b) => a - b)
UniqueDays(items) ==
  LET strings == Dedup(<<>>, [i \in 1..Len(items) |-> ToDateString(items[i].date)], 1)
      times   == [i \in 1..Len(strings) |-> ParseDateString(strings[i])]
  IN  StableSort(times, [i \in 1..Len(times) |-> <<times[i]>>])


\* mutant: any later day continues the streak (diffDays >= 1, no reset)
NextStreakAnyGap(currentStreak, time, prevTime, index) ==
  IF index = 1 THEN 1
  ELSE IF RoundDiv(time - prevTime, OneDay) >= 1 THEN currentStreak + 1
  ELSE currentStreak

\* the streak after visiting uniqueDays[index] (index counted from 1 here)
NextStreak(currentStreak, time, prevTime, index) ==
  IF index = 1 THEN 1
  ELSE IF time - prevTime <= OneDay + StreakTolerance
       THEN LET diffDays == RoundDiv(time - prevTime, OneDay)
            IN  IF diffDays = 1 THEN currentStreak + 1
                ELSE IF diffDays > 1 THEN 1
                ELSE currentStreak
       ELSE 1

RECURSIVE StreakWalk(_, _, _, _, _)
StreakWalk(days, index, maxStreak, currentStreak, prevTime) ==
  IF index > Len(days) THEN maxStreak
  ELSE LET cur == NextStreak(currentStreak, days[index], prevTime, index)
       IN  StreakWalk(days, index + 1, IF cur > maxStreak THEN cur ELSE maxStreak,
                      cur, days[index])


\* mutant: the walk starts at the second active day
LongestStreakFromSecond(days) == StreakWalk(days, 2, 0, 1, days[1])

\* maxStreak after uniqueDays.forEach
LongestStreak(days) == StreakWalk(days, 1, 0, 0, 0)

\* the object pushed for one year
YearlyReportOf(group) ==
  LET year      == group.name
      items     == group.items
      breakdown == SortedForBusiest(MonthlyBreakdown(items, year))
      days      == UniqueDays(items)
  IN  [year             |-> year,
       totalHours       |-> TotalHours(items),
       totalPlays       |-> Len(items),
       activeDays       |-> Len(days),
       longestStreak    |-> LongestStreak(days),
       busiestMonth     |-> IF Len(breakdown) > 0 THEN breakdown[1].monthName ELSE "N/A",
       monthlyBreakdown |-> breakdown,
       heatmapData      |-> HeatmapData(items),
       dailyActivity    |-> DailyActivity(items)]


\* mutant: the comparator is a.year - b.year
SortReportsAscending(reports) ==
  StableSort(reports, [i \in 1..Len(reports) |-> <<reports[i].year>>])

\* reports.sort((a, b) => b.year - a.year)
SortReports(reports) ==
  StableSort(reports, [i \in 1..Len(reports) |-> <<0 - reports[i].year>>])

processReports(data) ==
  LET years   == YearKeys(PartitionYears(<<>>, data, 1))
      reports == [i \in 1..Len(years) |-> YearlyReportOf(years[i])]
  IN  SortReports(reports)

(* ----------------------- generateMonthlyHeatmap ------------------------ *)

\* d.date && d.date.getFullYear() === year && d.date.getMonth() === monthIndex;
\* on an Invalid Date both getters return NaN, which equals nothing
InMonth(item, year, monthIndex) ==
  /\ item.date.tag # "missing"
  /\ item.date.tag = "valid"
  /\ GetFullYear(item.date) = year
  /\ GetMonth(item.date) = monthIndex

RECURSIVE MonthGrid(_, _, _)
\* heatmapGrid[key] = (heatmapGrid[key] || 0) + 1 with key `${getDate()}-${getHours()}`;
\* a cell never written reads as 0
MonthGrid(grid, items, i) ==
  IF i > Len(items) THEN grid
  ELSE MonthGrid([grid EXCEPT ![<<GetDate(items[i].date), GetHours(items[i].date)>>] = @ + 1],
                 items, i + 1)

\* for (d = 1; d <= daysInMonth; d++) for (h = 0; h < 24; h++) points.push(...)
generateMonthlyHeatmap(data, year, monthIndex) ==
  LET items       == SelectSeq(data, LAMBDA e : InMonth(e, year, monthIndex))
      grid        == MonthGrid([c \in (1..31) \X (0..23) |-> 0], items, 1)
      daysInMonth == DaysInMonth(year, monthIndex)
  IN  [k \in 1..(daysInMonth * 24) |->
         [day |-> (k - 1) \div 24 + 1, hour |-> (k - 1) % 24,
          value |-> grid[<<(k - 1) \div 24 + 1, (k - 1) % 24>>]]]

(* ---------------------------- Reports view ----------------------------- *)

\* filteredData with the user, date-range and duration filters at their initial
\* values ('all', '', ''): only the media-type filter selects
FilteredData(d, selectedMediaType) ==
  IF selectedMediaType = "movie" THEN SelectSeq(d, LAMBDA x : x.type = "movie")
  ELSE IF selectedMediaType = "episode" THEN SelectSeq(d, LAMBDA x : x.type = "episode")
  ELSE d

\* reports.length > 0 ? Math.min(yearIndex, Math.max(0, reports.length - 1)) : 0
safeYearIndex(list, yearIndex) ==
  IF Len(list) > 0 THEN Min(yearIndex, Max(0, Len(list) - 1)) ELSE 0

\* disabled={safeYearIndex >= reports.length - 1}
PrevDisabled(list, yearIndex) == safeYearIndex(list, yearIndex) >= Len(list) - 1

\* disabled={safeYearIndex <= 0}
NextDisabled(list, yearIndex) == safeYearIndex(list, yearIndex) <= 0

(* --------------------------- fetchPlexHistory -------------------------- *)

CONNECTION_STRATEGIES ==
  <<"Direct Connection", "Secure Routing (Primary)", "Secure Routing (Backup)">>

\* let lastError: Error | null = null
NoError == [message |-> "null", at |-> 0]

\* an Error object: its message and the pass of the loop that created it
ErrorAt(message, at) == [message |-> message, at |-> at]

\* what fetch(targetUrl) yields: a rejection, or a response with a status and a text
Rejected == [rejected |-> TRUE, status |-> 0, text |-> "none"]

Response(status, text) == [rejected |-> FALSE, status |-> status, text |-> text]

\* response.ok
Ok(response) == response.status \in 200..299

\* text.includes('403 Forbidden') || text.includes('Proxy Error')
IsProxyErrorPage(text) == text \in {"403 Forbidden page", "Proxy Error page"}

\* JSON.parse(text) returns and reading MediaContainer?.Metadata does not throw
ParsesAsJSON(text) == text \in {"JSON with Metadata", "JSON without Metadata"}

\* text.trim().startsWith('<')
StartsWithAngle(text) ==
  text \in {"403 Forbidden page", "Proxy Error page", "XML with Video nodes",
            "XML without nodes", "XML Response code 500"}

\* the outcome of the try block for one strategy: the value returned or the error
\* thrown
TryBlock(response, at) ==
  IF response.rejected
  THEN [thrown |-> TRUE, error |-> ErrorAt("Failed to fetch", at), value |-> "none"]
  ELSE IF ~Ok(response)
  THEN [thrown |-> TRUE, value |-> "none",
        error  |-> ErrorAt(IF response.status = 401 THEN "Unauthorized: Invalid X-Plex-Token."
                           ELSE IF response.status = 404
                           THEN "Server endpoint not found. Check your URL."
                           ELSE "HTTP status", at)]
  ELSE IF IsProxyErrorPage(response.text)
  THEN [thrown |-> TRUE, error |-> ErrorAt("Proxy rejected request", at), value |-> "none"]
  ELSE IF ParsesAsJSON(response.text)
  THEN [thrown |-> FALSE, error |-> NoError,
        value  |-> IF response.text = "JSON with Metadata" THEN "items" ELSE "[]"]
  ELSE IF StartsWithAngle(response.text)
  THEN IF response.text = "XML Response code 500"
       THEN [thrown |-> TRUE, error |-> ErrorAt("Plex API Error", at), value |-> "none"]
       ELSE [thrown |-> FALSE, error |-> NoError,
             value  |-> IF response.text = "XML with Video nodes" THEN "items" ELSE "[]"]
  ELSE [thrown |-> TRUE, error |-> ErrorAt("Invalid response format received.", at),
        value |-> "none"]

\* the attempt list with this pass of the loop added
Attempt(f, response) ==
  Append(f.attempts, [strategy |-> CONNECTION_STRATEGIES[f.index], response |-> response])

\* mutant: an Unauthorized error is thrown on to the caller
CatchRethrowsUnauthorized(f, response, error) ==
  IF error.message = "Unauthorized: Invalid X-Plex-Token."
  THEN [f EXCEPT !.pc = "thrown", !.result = error, !.attempts = Attempt(f, response)]
  ELSE [f EXCEPT !.index = @ + 1, !.lastError = error, !.attempts = Attempt(f, response)]

\* catch (error) { lastError = error; } and on to the next strategy
Catch(f, response, error) ==
  [f EXCEPT !.index = @ + 1, !.lastError = error, !.attempts = Attempt(f, response)]

(* -------------------------- generateMockData --------------------------- *)

\* Math.random() is a pseudo-random generator whose seed the program does not
\* choose: here a linear congruential generator on 16 bits, its state the seed
NextRandom(seed) == (25173 * seed + 13849) % (2 ^ 16)

\* the draw in [0, 1) read off the generator state, as a count of 1 / RandomSteps
RandomOf(seed) == (seed * RandomSteps) \div (2 ^ 16)

\* Math.floor(Math.random() * n)
FloorOf(r, n) == (r * n) \div RandomSteps

\* Math.random() > num / den
Exceeds(r, num, den) == r * den > num * RandomSteps

\* Date.prototype.setHours(hour): minutes and seconds are kept
SetHours(date, hour) ==
  [date EXCEPT !.time = (date.time \div OneDay) * OneDay + hour * 3600 + (date.time % 3600)]

\* "Admin", "Partner", "Kids", "Guest"
users == <<"Admin", "Partner", "Kids", "Guest">>

\* "Inception", "The Matrix", "Interstellar", "Dune", "The Batman",
\* "Spider-Man: Across the Spider-Verse", "Oppenheimer", "Barbie",
\* "Blade Runner 2049", "The Grand Budapest Hotel"
MOCK_TITLES_MOVIES == <<101, 102, 103, 104, 105, 106, 107, 108, 109, 110>>

\* "Breaking Bad", "Succession", "The Bear", "Severance", "The Office",
\* "Game of Thrones", "Stranger Things", "Better Call Saul", "The Mandalorian", "Andor"
MOCK_TITLES_SHOWS == <<201, 202, 203, 204, 205, 206, 207, 208, 209, 210>>

\* `Episode ${n}`
EpisodeTitle(n) == 300 + n

\* `Season ${n}`
SeasonTitle(n) == 400 + n

MockEvent(type, title, gp, parent, date, dur, user) ==
  [type |-> type, title |-> title, grandparentTitle |-> gp, parentTitle |-> parent,
   date |-> date, durationMinutes |-> dur, user |-> user]

\* one pass of the loop body: the item pushed and the generator state left behind.
\* Time is in whole seconds and a duration in whole minutes, rounded down.
MockIteration(seed, now) ==
  LET s1      == NextRandom(seed)
      isMovie == Exceeds(RandomOf(s1), 4, 10)
      s2      == NextRandom(s1)
      span    == RandomOf(s2) * MockDays
      drawn   == [tag  |-> "valid",
                  time |-> now.time - ((span \div RandomSteps) * OneDay
                                       + ((span % RandomSteps) * OneDay) \div RandomSteps)]
      s3      == NextRandom(s2)
      s4      == NextRandom(s3)
      evening == Exceeds(RandomOf(s4), 3, 10)
      s5      == IF evening THEN NextRandom(s4) ELSE s4
      hour    == IF evening THEN FloorOf(RandomOf(s5), 6) + 18
                 ELSE FloorOf(RandomOf(s3), 24)
      date    == SetHours(drawn, hour)
      s6      == NextRandom(s5)
      user    == users[FloorOf(RandomOf(s6), Len(users)) + 1]
      s7      == NextRandom(s6)
      s8      == NextRandom(s7)
      s9      == NextRandom(s8)
      s10     == NextRandom(s9)
  IN  IF isMovie
      THEN [item |-> MockEvent("movie",
                      MOCK_TITLES_MOVIES[FloorOf(RandomOf(s7), Len(MOCK_TITLES_MOVIES)) + 1],
                      0, 0, date, Num(90 + FloorOf(RandomOf(s8), 60)), user),
            seed |-> s8]
      ELSE [item |-> MockEvent("episode",
                      EpisodeTitle(FloorOf(RandomOf(s8), 10) + 1),
                      MOCK_TITLES_SHOWS[FloorOf(RandomOf(s7), Len(MOCK_TITLES_SHOWS)) + 1],
                      SeasonTitle(FloorOf(RandomOf(s9), 3) + 1),
                      date, Num(20 + FloorOf(RandomOf(s10), 40)), user),
            seed |-> s10]

\* mutant: the list is returned in the order of the pushes
KeepOrder(items) == items

\* items.sort((a, b) => a.date.getTime() - b.date.getTime()): every item goes to
\* the place after the items of an earlier time and after the items of its own
\* time that were pushed before it (the sort is stable)
SortByTime(items) ==
  LET n     == Len(items)
      t     == [i \in 1..n |-> items[i].date.time]
      place == [i \in 1..n |->
                  Cardinality({j \in 1..n : t[j] < t[i] \/ (t[j] = t[i] /\ j < i)}) + 1]
      from  == [k \in 1..n |-> CHOOSE i \in 1..n : place[i] = k]
  IN  IF t = t /\ place = place THEN [k \in 1..n |-> items[from[k]]] ELSE items

(* ------------------------------ inputs --------------------------------- *)

\* Sunday 2023-12-31 23:00
NewYearsEve == MkDate(2023, 11, 31, 23)

\* Wednesday 2024-01-31 20:00
Jan31 == MkDate(2024, 0, 31, 20)

\* Thursday 2024-02-01 20:00 and 21:00
Feb01 == MkDate(2024, 1, 1, 20)

Feb01Late == MkDate(2024, 1, 1, 21)

\* Friday 2024-02-02 20:00
Feb02 == MkDate(2024, 1, 2, 20)

\* Saturday 2024-02-03 20:00
Feb03 == MkDate(2024, 1, 3, 20)

\* Thursday 2024-02-29 20:00
LeapDay == MkDate(2024, 1, 29, 20)

\* Wednesday 2025-01-01 00:00
NewYear25 == MkDate(2025, 0, 1, 0)

\* Events fed to processHistoryData: every way of naming an event (at one date and
\* duration), every kind of duration (for one movie), and missing, invalid and
\* out-of-order dates (for one movie and one series).
SummaryPool ==
  {Item("movie", t, 0, 0, Jan31, Num(20)) : t \in {0, 1, TopN + 1}}
  \cup {Item("episode", t, g, p, Jan31, Num(20)) : t \in {0, 1}, g \in {0, TopN + 1}, p \in {0, 3}}
  \cup {Item(ty, 1, 0, 0, Jan31, Num(20)) : ty \in {"track", "unknown", ""}}
  \cup {Item("movie", 1, 0, 0, Jan31, d) : d \in {NoDuration, NaNDuration, Num(0 - 70), Num(100)}}
  \cup {Item("movie", 1, 0, 0, d, Num(20)) : d \in {MissingDate, InvalidDate, Feb01, NewYearsEve}}
  \cup {Item("episode", 1, TopN + 1, 0, d, Num(20)) : d \in {InvalidDate, Feb01}}

\* Events fed to processReports: one series on every date of interest (three years,
\* a month boundary, the same day twice, a gap, no date), one movie with every kind
\* of duration, and an episode without a countable name.
ReportsPool ==
  {Item("episode", 1, TopN + 1, 0, d, Num(100)) :
     d \in {MissingDate, InvalidDate, NewYearsEve, Jan31, Feb01, Feb01Late, Feb03, NewYear25}}
  \cup {Item("movie", 1, 0, 0, Jan31, m) : m \in {NoDuration, NaNDuration, Num(0 - 70), Num(20)}}
  \cup {Item("episode", 0, 0, 3, Feb01, Num(20))}
  \cup {Item("episode", 1, TopN + 1, 0, Feb02, Num(100)), Item("movie", 1, 0, 0, Feb02, Num(20))}

\* Events fed to both functions: every kind of duration on a movie and on an episode,
\* with and without a valid date.
EnginePool ==
  {Item("movie", 1, 0, 0, Jan31, d) : d \in {NoDuration, NaNDuration, Num(0), Num(100)}}
  \cup {Item("episode", 1, TopN + 1, 0, Feb01, d) : d \in {NoDuration, NaNDuration, Num(40)}}
  \cup {Item("episode", 1, TopN + 1, 0, InvalidDate, NaNDuration),
        Item("track", 1, 0, 0, NewYearsEve, NoDuration)}

\* Events fed to generateMonthlyHeatmap: the last hour of a 31-day month, the first
\* day of another year's February (at two hours), the 29th of that February, and
\* no date.
HeatmapPool ==
  {Item("episode", 1, TopN + 1, 0, d, Num(20)) :
     d \in {MissingDate, InvalidDate, NewYearsEve, Feb01, Feb01Late, LeapDay}}

\* the years a monthly heatmap is asked for: a common year and a leap year
HeatmapYears == {2023, 2024}

\* the i-th entry of a library of distinct titles
LibraryItem(type, i) ==
  IF type = "movie" THEN Item("movie", i, 0, 0, Jan31, Num(20))
  ELSE Item("episode", 1, i, 0, Jan31, Num(20))

\* Events shown in the Reports view: a movie and an episode in each of three years
NavPool ==
  {Item(ty, 1, 0, 0, d, Num(20)) : ty \in {"movie", "episode"}, d \in {NewYearsEve, Feb01, NewYear25}}

\* What a strategy's request can meet: no connection, an HTTP error, a proxy's
\* error page, a history in JSON or XML (with or without entries), an XML error
\* response, text that is neither
Responses ==
  {Rejected}
  \cup {Response(status, "none") : status \in {401, 404, 500}}
  \cup {Response(200, text) :
          text \in {"403 Forbidden page", "Proxy Error page", "JSON with Metadata",
                    "JSON without Metadata", "XML with Video nodes", "XML without nodes",
                    "XML Response code 500", "plain text"}}

\* new Date() at the call of generateMockData
MockNows == {[tag |-> "valid", time |-> MkDate(2024, 5, 15, 13).time + 754],
             [tag |-> "valid", time |-> MkDate(2025, 0, 1, 0).time + 5]}

(* ---------------------------- state machine ---------------------------- *)

VARIABLES
  data,     \* the input list handed to the engine
  loaded,   \* how many of its events were appended in bulk
  called,   \* the function that has returned, "none" before any call
  summary,  \* the AnalyticsSummary returned by processHistoryData
  reports,  \* the YearlyReport[] returned by processReports
  monthly,  \* the arguments and the HeatmapPoint[] of generateMonthlyHeatmap
  view,     \* the Reports view: yearIndex, the media-type filter, a render being due
  fetch,    \* fetchPlexHistory: the strategy being tried, the attempts, the outcome
  mock      \* generateMockData: the loop counter, the items pushed, the result

\* the state of the Reports view, of the Plex client and of the mock generator
others == <<view, fetch, mock>>

vars == <<data, loaded, called, summary, reports, monthly, view, fetch, mock>>

Init ==
  /\ data = <<>>
  /\ loaded = 0
  /\ called = "none"
  /\ summary = EmptySummary
  /\ reports = <<>>
  /\ monthly = [year |-> 0, monthIndex |-> 0, points |-> <<>>]
  /\ view = [yearIndex |-> 0, selectedMediaType |-> "all", stale |-> FALSE]
  /\ fetch = [pc |-> "idle", index |-> 1, attempts |-> <<>>, lastError |-> NoError,
              result |-> NoError, value |-> "none"]
  /\ mock = [pc |-> "idle", i |-> 0, seed |-> 0, now |-> MissingDate, items |-> <<>>]

\* the caller appends one event to the list it is about to pass in
AddEvent(pool) ==
  /\ called = "none"
  /\ Len(data) - loaded < (IF loaded = 0 THEN MaxEvents ELSE MaxExtra)
  /\ \E e \in pool : data' = Append(data, e)
  /\ UNCHANGED <<loaded, called, summary, reports, monthly, others>>

AddSummaryEvent == AddEvent(SummaryPool)

AddReportEvent == AddEvent(ReportsPool)

\* the list starts with a library of n distinct movies or n distinct series
LoadLibrary ==
  /\ called = "none"
  /\ data = <<>>
  /\ \E type \in {"movie", "episode"}, n \in TopN..MaxLibrary :
       /\ data' = [i \in 1..n |-> LibraryItem(type, i)]
       /\ loaded' = n
  /\ UNCHANGED <<called, summary, reports, monthly, others>>

\* the list starts with k episodes of one series watched within the same hour
AddBurst ==
  /\ called = "none"
  /\ data = <<>>
  /\ \E k \in BingeCap..MaxBurst :
       /\ data' = [i \in 1..k |-> Item("episode", 1, TopN + 1, 0, Feb01, Num(20))]
       /\ loaded' = k
  /\ UNCHANGED <<called, summary, reports, monthly, others>>

CallProcessHistoryData ==
  /\ called = "none"
  /\ summary' = processHistoryData(data)
  /\ called' = "processHistoryData"
  /\ UNCHANGED <<data, loaded, reports, monthly, others>>

CallProcessReports ==
  /\ called = "none"
  /\ reports' = processReports(data)
  /\ called' = "processReports"
  /\ UNCHANGED <<data, loaded, summary, monthly, others>>

AddEngineEvent == AddEvent(EnginePool)

\* mutant: the function sorts the list it was given, data.sort(...), in place
CallProcessReportsSortingInput ==
  /\ called = "processHistoryData"
  /\ reports' = processReports(data)
  /\ data' = SortByTime(data)
  /\ called' = "both"
  /\ UNCHANGED <<loaded, summary, monthly, others>>

\* the Reports view computes the reports of the list the summary was computed from
CallProcessReportsAfterSummary ==
  /\ called = "processHistoryData"
  /\ reports' = processReports(data)
  /\ called' = "both"
  /\ UNCHANGED <<data, loaded, summary, monthly, others>>

\* the caller appends one event to the list it is about to pass in
AddHeatmapEvent ==
  /\ called = "none"
  /\ Len(data) < MaxHeatmapEvents
  /\ \E e \in HeatmapPool : data' = Append(data, e)
  /\ UNCHANGED <<loaded, called, summary, reports, monthly, others>>

CallGenerateMonthlyHeatmap ==
  /\ called = "none"
  /\ \E year \in HeatmapYears, monthIndex \in 0..11 :
       monthly' = [year |-> year, monthIndex |-> monthIndex,
                   points |-> generateMonthlyHeatmap(data, year, monthIndex)]
  /\ called' = "generateMonthlyHeatmap"
  /\ UNCHANGED <<data, loaded, summary, reports, others>>

\* the Reports view computes the heatmap of a month from the same list
CallGenerateMonthlyHeatmapAfterReports ==
  /\ called = "both"
  /\ \E year \in HeatmapYears, monthIndex \in 0..11 :
       monthly' = [year |-> year, monthIndex |-> monthIndex,
                   points |-> generateMonthlyHeatmap(data, year, monthIndex)]
  /\ called' = "all"
  /\ UNCHANGED <<data, loaded, summary, reports, others>>

NextSummary == AddSummaryEvent \/ LoadLibrary \/ CallProcessHistoryData

NextReports == AddReportEvent \/ AddBurst \/ CallProcessReports

NextEngine == AddEngineEvent \/ CallProcessHistoryData \/ CallProcessReportsAfterSummary

NextHeatmap == AddHeatmapEvent \/ CallGenerateMonthlyHeatmap

\* processHistoryData applied to every bounded input
SpecSummary == Init /\ [][NextSummary]_vars

\* processReports applied to every bounded input
SpecReports == Init /\ [][NextReports]_vars

\* both functions applied to the same bounded input
SpecEngine == Init /\ [][NextEngine]_vars

\* generateMonthlyHeatmap applied to every bounded input, year and month
SpecHeatmap == Init /\ [][NextHeatmap]_vars

NextCalls ==
  \/ AddHeatmapEvent
  \/ CallProcessHistoryData
  \/ CallProcessReportsAfterSummary
  \/ CallGenerateMonthlyHeatmapAfterReports

\* the three functions applied one after the other to the same list
SpecCalls == Init /\ [][NextCalls]_vars

\* the caller appends one event to the list the Reports view will be given
AddNavEvent ==
  /\ called = "none"
  /\ Len(data) < MaxNavEvents
  /\ \E e \in NavPool : data' = Append(data, e)
  /\ UNCHANGED <<loaded, called, summary, reports, monthly, others>>

\* the Reports view is mounted: yearIndex = 0, selectedMediaType = 'all'; its
\* first render is due
OpenReports ==
  /\ called = "none"
  /\ called' = "Reports"
  /\ view' = [yearIndex |-> 0, selectedMediaType |-> "all", stale |-> TRUE]
  /\ UNCHANGED <<data, loaded, summary, reports, monthly, fetch, mock>>

\* MediaTypeSelector onSelect: the state is set, which makes a render due
SelectMediaType ==
  /\ called = "Reports"
  /\ ~view.stale
  /\ \E t \in {"all", "movie", "episode"} \ {view.selectedMediaType} :
       view' = [view EXCEPT !.selectedMediaType = t, !.stale = TRUE]
  /\ UNCHANGED <<data, loaded, called, summary, reports, monthly, fetch, mock>>

\* the render that follows a change of filteredData: useMemo recomputes reports
RenderReports ==
  /\ called = "Reports"
  /\ view.stale
  /\ \E filteredData \in {FilteredData(data, view.selectedMediaType)} :
       reports' = processReports(filteredData)
  /\ view' = [view EXCEPT !.stale = FALSE]
  /\ UNCHANGED <<data, loaded, called, summary, monthly, fetch, mock>>

\* a click on the previous-year button, rendered only with a current report
ClickPrev ==
  /\ called = "Reports"
  /\ ~view.stale
  /\ Len(reports) > 0
  /\ ~PrevDisabled(reports, view.yearIndex)
  /\ view' = [view EXCEPT !.yearIndex = Min(Len(reports) - 1, @ + 1)]
  /\ UNCHANGED <<data, loaded, called, summary, reports, monthly, fetch, mock>>

\* a click on the next-year button, rendered only with a current report
ClickNext ==
  /\ called = "Reports"
  /\ ~view.stale
  /\ Len(reports) > 0
  /\ ~NextDisabled(reports, view.yearIndex)
  /\ view' = [view EXCEPT !.yearIndex = Max(0, @ - 1)]
  /\ UNCHANGED <<data, loaded, called, summary, reports, monthly, fetch, mock>>

NextNav ==
  AddNavEvent \/ OpenReports \/ SelectMediaType \/ RenderReports \/ ClickPrev \/ ClickNext

\* the Reports view over every bounded list, filter change and click
SpecNav == Init /\ [][NextNav]_vars

\* fetchPlexHistory is entered: lastError = null, the loop is at the first strategy
CallFetchPlexHistory ==
  /\ fetch.pc = "idle"
  /\ fetch' = [fetch EXCEPT !.pc = "loop"]
  /\ UNCHANGED <<data, loaded, called, summary, reports, monthly, view, mock>>

\* one pass of for (const strategy of CONNECTION_STRATEGIES): the try block
\* returns from the function or throws into the catch block
TryStrategy ==
  /\ fetch.pc = "loop"
  /\ fetch.index <= Len(CONNECTION_STRATEGIES)
  /\ \E response \in Responses :
       LET outcome == TryBlock(response, fetch.index)
       IN  fetch' = IF outcome.thrown
                    THEN Catch(fetch, response, outcome.error)
                    ELSE [fetch EXCEPT !.pc = "returned", !.value = outcome.value,
                                       !.attempts = Attempt(fetch, response)]
  /\ UNCHANGED <<data, loaded, called, summary, reports, monthly, view, mock>>

\* throw lastError || new Error("Unable to connect ...") once the loop is left
ThrowLastError ==
  /\ fetch.pc = "loop"
  /\ fetch.index > Len(CONNECTION_STRATEGIES)
  /\ fetch' = [fetch EXCEPT !.pc = "thrown",
                            !.result = IF fetch.lastError # NoError THEN fetch.lastError
                                       ELSE ErrorAt("Unable to connect", 0)]
  /\ UNCHANGED <<data, loaded, called, summary, reports, monthly, view, mock>>

NextFetch == CallFetchPlexHistory \/ TryStrategy \/ ThrowLastError

\* fetchPlexHistory against every response of every strategy
SpecFetch == Init /\ [][NextFetch]_vars

\* generateMockData is entered: items = [], i = 0, now = new Date()
CallGenerateMockData ==
  /\ mock.pc = "idle"
  /\ \E seed \in 0..MaxSeed, now \in MockNows :
       mock' = [pc |-> "loop", i |-> 0, seed |-> seed, now |-> now, items |-> <<>>]
  /\ UNCHANGED <<data, loaded, called, summary, reports, monthly, view, fetch>>

\* one pass of for (let i = 0; i < count; i++)
MockPush ==
  /\ mock.pc = "loop"
  /\ mock.i < MockCount
  /\ LET step == MockIteration(mock.seed, mock.now)
     IN  mock' = [mock EXCEPT !.i = @ + 1, !.seed = step.seed,
                              !.items = Append(@, step.item)]
  /\ UNCHANGED <<data, loaded, called, summary, reports, monthly, view, fetch>>

\* the loop is left and the sorted list is returned
MockReturn ==
  /\ mock.pc = "loop"
  /\ ~(mock.i < MockCount)
  /\ mock' = [mock EXCEPT !.pc = "returned", !.items = SortByTime(@)]
  /\ UNCHANGED <<data, loaded, called, summary, reports, monthly, view, fetch>>

NextMock == CallGenerateMockData \/ MockPush \/ MockReturn

SpecMock == Init /\ [][NextMock]_vars

(* ------------------------- what the input holds ------------------------ *)

SummaryReturned == called = "processHistoryData"

ReportsReturned == called = "processReports"

BothReturned == called = "both"

HeatmapReturned == called = "generateMonthlyHeatmap"

Indices == 1..Len(data)

ValidIndices == {i \in Indices : data[i].date.tag = "valid"}

HasNumericDuration(item) == item.durationMinutes.tag = "number"

RECURSIVE SumOver(_, _)
\* the sum of f[i] over the finite set S of indices
SumOver(f, S) ==
  IF S = {} THEN 0
  ELSE LET i == CHOOSE j \in S : TRUE IN f[i] + SumOver(f, S \ {i})

\* the sum of the count fields of a list of buckets
SumCounts(s) == SumOver([i \in 1..Len(s) |-> s[i].count], 1..Len(s))

(* -------------------------------- C1 ----------------------------------- *)

\* C1: whatever the events are (invalid or missing timestamp, missing or NaN
\* duration, empty title, unset kind), the summary's totalPlays is the length of the
\* input list.
C1_TotalPlaysIsLength ==
  SummaryReturned => summary.totalPlays = Len(data)

C1_Witness ==
  /\ SummaryReturned
  /\ Len(data) = MaxEvents
  /\ \E i \in Indices : data[i].date.tag # "valid"
  /\ \E i \in Indices : ~HasNumericDuration(data[i])
  /\ \E i \in Indices : data[i].title = 0 \/ data[i].type = ""

(* -------------------------------- C2 ----------------------------------- *)

\* max(durationMinutes, 0) over the events with a valid numeric duration
ClampedMinutes ==
  SumOver([i \in Indices |->
             IF HasNumericDuration(data[i]) /\ data[i].durationMinutes.val > 0
             THEN data[i].durationMinutes.val ELSE 0], Indices)

\* C2: totalDurationHours is non-negative and equals round(S / 60), S being the sum
\* of max(durationMinutes, 0) over the events with a valid numeric duration.
C2_DurationClamped ==
  SummaryReturned =>
    /\ summary.totalDurationHours >= 0
    /\ summary.totalDurationHours = RoundDiv(ClampedMinutes, 60)

(* -------------------------------- C3 ----------------------------------- *)

IsTitledMovie(item) == TypeOf(item) = "movie" /\ item.title # 0

IsEpisode(item) == TypeOf(item) = "episode"

MovieKeys == {data[i].title : i \in {j \in Indices : IsTitledMovie(data[j])}}

ShowKeys == {ShowNameOf(data[i]) : i \in {j \in Indices : IsEpisode(data[j])}}

\* the number of plays of every movie title and of every show name
MoviePlays ==
  [t \in MovieKeys |->
     Cardinality({i \in Indices : IsTitledMovie(data[i]) /\ data[i].title = t})]

ShowPlays ==
  [n \in ShowKeys |->
     Cardinality({i \in Indices : IsEpisode(data[i]) /\ ShowNameOf(data[i]) = n})]

\* list is a top list of the keys of `plays`, a function from key to play count
IsTopList(list, plays) ==
  /\ Len(list) <= TopN
  /\ \A i \in 1..Len(list) :
       list[i].name \in DOMAIN plays /\ list[i].count = plays[list[i].name]
  /\ \A i, j \in 1..Len(list) : i < j => list[i].count >= list[j].count
  /\ \A k \in DOMAIN plays \ {list[i].name : i \in 1..Len(list)} :
       \A i \in 1..Len(list) : plays[k] <= list[i].count

YearEvents(y) == {i \in ValidIndices : GetFullYear(data[i].date) = y}

ReportIndices == 1..Len(reports)

\* C4: every yearly report has a weekly heatmap of exactly 168 points in which every
\* (day, hour) pair occurs exactly once, and the value of cell (d, h) is the number
\* of that year's events that fall on weekday d at hour h.
C4_HeatmapComplete ==
  ReportsReturned =>
    \A k \in ReportIndices :
      LET hm == reports[k].heatmapData
      IN  /\ Len(hm) = 7 * 24
          /\ {<<hm[p].day, hm[p].hour>> : p \in 1..Len(hm)} = (0..6) \X (0..23)
          /\ \A p \in 1..Len(hm) :
               hm[p].value =
                 Cardinality({i \in YearEvents(reports[k].year) :
                                /\ GetDay(data[i].date) = hm[p].day
                                /\ GetHours(data[i].date) = hm[p].hour})

\* a year with two events in one cell and one event in another
C4_Witness ==
  /\ ReportsReturned
  /\ \E k \in ReportIndices :
       /\ \E p \in 1..Len(reports[k].heatmapData) : reports[k].heatmapData[p].value = 2
       /\ \E p \in 1..Len(reports[k].heatmapData) : reports[k].heatmapData[p].value = 1

(* -------------------------------- C5 ----------------------------------- *)

\* C5: in every yearly report, 1 <= longestStreak <= activeDays.
C5_StreakBound ==
  ReportsReturned =>
    \A k \in ReportIndices :
      /\ 1 <= reports[k].longestStreak
      /\ reports[k].longestStreak <= reports[k].activeDays

\* two consecutive days, then a gap: a streak of 2 over 3 active days
C5_Witness ==
  /\ ReportsReturned
  /\ \E k \in ReportIndices : reports[k].longestStreak = 2 /\ reports[k].activeDays = 3

(* -------------------------------- C6 ----------------------------------- *)

\* C6: every MonthlyReport of every yearly report has 0 <= bingeScore <= 10.
C6_BingeBound ==
  ReportsReturned =>
    \A k \in ReportIndices :
      \A m \in 1..Len(reports[k].monthlyBreakdown) :
        /\ 0 <= reports[k].monthlyBreakdown[m].bingeScoreTenths
        /\ reports[k].monthlyBreakdown[m].bingeScoreTenths <= 10 * BingeCap

\* more than ten episodes on the only active day of a month: the cap applies
C6_Witness ==
  /\ ReportsReturned
  /\ \E k \in ReportIndices :
       \E m \in 1..Len(reports[k].monthlyBreakdown) :
         /\ reports[k].monthlyBreakdown[m].bingeScoreTenths = 10 * BingeCap
         /\ Cardinality({i \in YearEvents(reports[k].year) :
                           /\ data[i].type = "episode"
                           /\ DateKeyOf(data[i].date) = DateKeyOf(Feb01)}) > BingeCap
         /\ Cardinality({DateKeyOf(data[i].date) :
                           i \in {j \in YearEvents(reports[k].year) :
                                    GetMonth(data[j].date) = GetMonth(Feb01)}}) = 1

(* -------------------------------- C7 ----------------------------------- *)

\* C7: the monthlyBreakdown of every yearly report is in ascending order of
\* monthKey.
C7_MonthsAscending ==
  ReportsReturned =>
    \A k \in ReportIndices :
      \A i, j \in 1..Len(reports[k].monthlyBreakdown) :
        i < j => LexLess(reports[k].monthlyBreakdown[i].monthKey,
                         reports[k].monthlyBreakdown[j].monthKey)

(* -------------------------------- C8 ----------------------------------- *)

ValidYears == {GetFullYear(data[i].date) : i \in ValidIndices}

\* C8: there is exactly one report per distinct calendar year of the valid
\* timestamps of the input, and the list is in strictly decreasing order of year.
C8_OneReportPerYear ==
  ReportsReturned =>
    /\ {reports[k].year : k \in ReportIndices} = ValidYears
    /\ Len(reports) = Cardinality(ValidYears)
    /\ \A i, j \in ReportIndices : i < j => reports[i].year > reports[j].year

\* three years, given oldest first
C8_Witness ==
  /\ ReportsReturned
  /\ Len(reports) = 3
  /\ ValidIndices = Indices
  /\ GetFullYear(data[1].date) < GetFullYear(data[Len(data)].date)

(* -------------------------------- C9 ----------------------------------- *)

\* C9: an event without a valid timestamp is counted in totalPlays and in the
\* duration total but in no time bucket: the hour, weekday and month counts each add
\* up to the number of events with a valid timestamp.
C9_InvalidDateNotBucketed ==
  SummaryReturned =>
    /\ summary.totalPlays = Len(data)
    /\ summary.totalDurationHours =
         RoundDiv(SumOver([i \in Indices |->
                             IF HasNumericDuration(data[i])
                             THEN data[i].durationMinutes.val ELSE 0], Indices), 60)
    /\ SumCounts(summary.playsByHour) = Cardinality(ValidIndices)
    /\ SumCounts(summary.playsByDayOfWeek) = Cardinality(ValidIndices)
    /\ SumCounts(summary.playsByMonth) = Cardinality(ValidIndices)

\* dated and undated events together, the undated ones carrying a whole hour
C9_Witness ==
  /\ SummaryReturned
  /\ \E i \in Indices : data[i].date.tag = "missing"
  /\ \E i \in Indices : data[i].date.tag = "invalid"
  /\ Cardinality(ValidIndices) = 1
  /\ summary.totalDurationHours = 1

(* -------------------------------- C10 ---------------------------------- *)

\* C10: an event without a valid timestamp contributes to no year's report: the
\* reports' totalPlays add up to the number of events with a valid timestamp, and
\* the reports are those of the input with such events removed.
C10_InvalidDateInNoReport ==
  ReportsReturned =>
    /\ SumOver([k \in ReportIndices |-> reports[k].totalPlays], ReportIndices)
         = Cardinality(ValidIndices)
    /\ reports = processReports(SelectSeq(data, LAMBDA e : e.date.tag = "valid"))

C10_Witness ==
  /\ ReportsReturned
  /\ \E i \in Indices : data[i].date.tag = "missing"
  /\ \E i \in Indices : data[i].date.tag = "invalid"
  /\ Len(reports) = 1

(* -------------------------------- C11 ---------------------------------- *)

MovieGroup(name) == {i \in Indices : IsTitledMovie(data[i]) /\ data[i].title = name}

ShowGroup(name) == {i \in Indices : IsEpisode(data[i]) /\ ShowNameOf(data[i]) = name}

\* date is the most recent of the valid timestamps of the events of group, if the
\* group has an event with a valid timestamp
IsMostRecent(date, group) ==
  LET timed == {i \in group : HasValidDate(data[i])}
  IN  timed # {} =>
        /\ date.tag = "valid"
        /\ \E i \in timed : date.time = data[i].date.time
        /\ \A i \in timed : date.time >= data[i].date.time

\* C12: the lastWatched of every entry of topMovies and topShows is the most recent
\* timestamp among the events grouped under its key, in whatever order the events
\* come and also when some of them have an invalid timestamp.
C12_LastWatchedIsMax ==
  SummaryReturned =>
    /\ \A k \in 1..Len(summary.topMovies) :
         IsMostRecent(summary.topMovies[k].lastWatched, MovieGroup(summary.topMovies[k].name))
    /\ \A k \in 1..Len(summary.topShows) :
         IsMostRecent(summary.topShows[k].lastWatched, ShowGroup(summary.topShows[k].name))

(* -------------------------------- C13 ---------------------------------- *)

Episodes == {i \in Indices : data[i].type = "episode"}

\* the series title if non-empty, else the parent title if non-empty, else the own
\* title if non-empty, else the fallback label
SeriesElseParentElseOwn(item) ==
  CHOOSE n \in {item.grandparentTitle, item.parentTitle, item.title, UnknownShow} :
    \/ n = item.grandparentTitle /\ n # 0
    \/ item.grandparentTitle = 0 /\ n = item.parentTitle /\ n # 0
    \/ item.grandparentTitle = 0 /\ item.parentTitle = 0 /\ n = item.title /\ n # 0
    \/ item.grandparentTitle = 0 /\ item.parentTitle = 0 /\ item.title = 0 /\ n = UnknownShow

ResolvedNames == {SeriesElseParentElseOwn(data[i]) : i \in Episodes}

ActiveDayNumbers(y) == {DayNumber(data[i].date) : i \in YearEvents(y)}

\* days d, d + 1, ..., d + n - 1 are all in the set
IsRun(days, d, n) == \A j \in 0..(n - 1) : d + j \in days

\* the length of the longest run of consecutive days in a finite set of day numbers
LongestRun(days) ==
  CHOOSE n \in 0..Cardinality(days) :
    /\ n > 0 => \E d \in days : IsRun(days, d, n)
    /\ ~ \E d \in days : IsRun(days, d, n + 1)

\* C14: the longestStreak of every yearly report is the length of the longest run
\* of consecutive calendar days among the distinct local calendar days of that
\* year that have an event, and activeDays is the number of those days.
C14_StreakIsLongestRun ==
  ReportsReturned =>
    \A k \in ReportIndices :
      /\ reports[k].longestStreak = LongestRun(ActiveDayNumbers(reports[k].year))
      /\ reports[k].activeDays = Cardinality(ActiveDayNumbers(reports[k].year))

\* events on three consecutive days, across a month boundary
C14_Witness ==
  /\ ReportsReturned
  /\ \E k \in ReportIndices :
       /\ reports[k].activeDays = 3
       /\ reports[k].longestStreak = 3
       /\ \E i, j \in YearEvents(reports[k].year) :
            GetMonth(data[i].date) # GetMonth(data[j].date)

(* -------------------------------- C15 ---------------------------------- *)

\* the input is two episodes on one calendar day and then a third episode in the
\* same year, `gap` calendar days after them
TwoThenOne(gap) ==
  /\ Len(data) = 3
  /\ \A i \in Indices : data[i].type = "episode" /\ HasValidDate(data[i])
  /\ DayNumber(data[1].date) = DayNumber(data[2].date)
  /\ DayNumber(data[3].date) = DayNumber(data[1].date) + gap
  /\ GetFullYear(data[3].date) = GetFullYear(data[1].date)

\* C15 as stated: two episodes on the same calendar day, a one-day gap (the third
\* episode on the next day, or on the day after it), then one more episode, all in
\* one year, give longestStreak = 2 and activeDays = 3.
C15_ScenarioD ==
  (ReportsReturned /\ (TwoThenOne(1) \/ TwoThenOne(2))) =>
    /\ Len(reports) = 1
    /\ reports[1].longestStreak = 2
    /\ reports[1].activeDays = 3

\* C15 as amended: such an input has two active days; longestStreak is 2 when the
\* third episode is on the next calendar day and 1 when a day without events lies
\* in between.
C15_ScenarioDTwoActiveDays ==
  /\ (ReportsReturned /\ TwoThenOne(1)) =>
       /\ Len(reports) = 1
       /\ reports[1].activeDays = 2
       /\ reports[1].longestStreak = 2
  /\ (ReportsReturned /\ TwoThenOne(2)) =>
       /\ Len(reports) = 1
       /\ reports[1].activeDays = 2
       /\ reports[1].longestStreak = 1

C15_Witness ==
  /\ ReportsReturned
  /\ TwoThenOne(2)
  /\ GetHours(data[1].date) # GetHours(data[2].date)

(* -------------------------------- C16 ---------------------------------- *)

\* the events of month monthIndex of year y
MonthEvents(y, monthIndex) == {i \in YearEvents(y) : GetMonth(data[i].date) = monthIndex}

\* the months of year y that have an event
ActiveMonths(y) == {GetMonth(data[i].date) : i \in YearEvents(y)}

\* the hours of a set of events: their numeric durations, summed, then rounded
HoursOf(S) ==
  RoundDiv(SumOver([i \in Indices |->
                      IF HasNumericDuration(data[i]) THEN data[i].durationMinutes.val ELSE 0],
                   S), 60)

\* C16: the busiestMonth of every yearly report is the name of one of that year's
\* MonthlyReports whose totalHours is maximal among them, and that month's hours,
\* computed from the input, are maximal among the months of the year.
C16_BusiestMonth ==
  ReportsReturned =>
    \A k \in ReportIndices :
      LET mb == reports[k].monthlyBreakdown
          y  == reports[k].year
      IN  /\ \E m \in 1..Len(mb) :
               /\ mb[m].monthName = reports[k].busiestMonth
               /\ \A n \in 1..Len(mb) : mb[n].totalHours <= mb[m].totalHours
          /\ \E mi \in ActiveMonths(y) :
               /\ MonthNames[mi + 1] = reports[k].busiestMonth
               /\ \A ni \in ActiveMonths(y) :
                    HoursOf(MonthEvents(y, ni)) <= HoursOf(MonthEvents(y, mi))

\* the later of two months of a year is the busier one
C16_Witness ==
  /\ ReportsReturned
  /\ \E k \in ReportIndices :
       /\ reports[k].busiestMonth = "February"
       /\ HoursOf(MonthEvents(reports[k].year, 0)) < HoursOf(MonthEvents(reports[k].year, 1))
       /\ MonthEvents(reports[k].year, 0) # {}

(* -------------------------------- C17 ---------------------------------- *)

\* the number of days of a month, from the calendar rules
CalendarDays(y, monthIndex) ==
  IF monthIndex = 1
  THEN (IF (y % 4 = 0 /\ y % 100 # 0) \/ y % 400 = 0 THEN 29 ELSE 28)
  ELSE IF monthIndex \in {3, 5, 8, 10} THEN 30
  ELSE 31

\* the events that fall in year y, month monthIndex, on day d at hour h
CellEvents(y, monthIndex, d, h) ==
  {i \in ValidIndices :
     /\ GetFullYear(data[i].date) = y
     /\ GetMonth(data[i].date) = monthIndex
     /\ GetDate(data[i].date) = d
     /\ GetHours(data[i].date) = h}

\* C17: generateMonthlyHeatmap returns (days of the month) x 24 points, one per
\* (day, hour) pair in order of day then hour, and the value of each point is the
\* number of events that fall in that year, month, day and hour; events without a
\* valid timestamp and events of other months add to no point.
C17_MonthlyHeatmap ==
  HeatmapReturned =>
    LET n == CalendarDays(monthly.year, monthly.monthIndex)
    IN  /\ Len(monthly.points) = n * 24
        /\ \A d \in 1..n : \A h \in 0..23 :
             monthly.points[(d - 1) * 24 + h + 1] =
               [day |-> d, hour |-> h,
                value |-> Cardinality(CellEvents(monthly.year, monthly.monthIndex, d, h))]

\* February of a leap year: one event on the 29th, one in another month or undated
C17_Witness ==
  /\ HeatmapReturned
  /\ monthly.year = GetFullYear(LeapDay) /\ monthly.monthIndex = GetMonth(LeapDay)
  /\ Len(monthly.points) = 29 * 24
  /\ monthly.points[28 * 24 + GetHours(LeapDay) + 1].value = 1
  /\ Len(data) = 2
  /\ \E i \in Indices :
       ~HasValidDate(data[i]) \/ GetMonth(data[i].date) # monthly.monthIndex

(* -------------------------------- C18 ---------------------------------- *)

\* the month index of a MonthlyReport's key within year y
MonthIndexOfKey(y, key) == CHOOSE mi \in 0..11 : MonthKeyOf(y, mi) = key

\* episodes / active days of a set of events, rounded to one decimal place and
\* capped at 10, in tenths; 0 when there is no active day
ExpectedBingeTenths(S) ==
  LET episodes == Cardinality({i \in S : data[i].type = "episode"})
      days     == Cardinality({DayNumber(data[i].date) : i \in S})
  IN  IF days = 0 THEN 0
      ELSE Min(10 * BingeCap, RoundDiv(10 * episodes, days))

\* C18: the bingeScore of every MonthlyReport is the number of episode events of the
\* month divided by the number of distinct calendar days with an event in the month,
\* rounded to one decimal place and capped at 10.
C18_BingeScore ==
  ReportsReturned =>
    \A k \in ReportIndices :
      \A m \in 1..Len(reports[k].monthlyBreakdown) :
        LET mr == reports[k].monthlyBreakdown[m]
        IN  mr.bingeScoreTenths =
              ExpectedBingeTenths(MonthEvents(reports[k].year,
                                              MonthIndexOfKey(reports[k].year, mr.monthKey)))

\* two episodes and a movie on three days of a month: 2 / 3 rounds to 0.7
C18_Witness ==
  /\ ReportsReturned
  /\ \E k \in ReportIndices :
       \E m \in 1..Len(reports[k].monthlyBreakdown) :
         /\ reports[k].monthlyBreakdown[m].bingeScoreTenths = 7
         /\ reports[k].monthlyBreakdown[m].playCount = 3

(* -------------------------------- C19 ---------------------------------- *)

\* the name an event is counted under: for an episode the series title, else the
\* parent title, else its own title; for any other event its own title (0: no name)
CountedUnder(item) ==
  IF item.type = "episode"
  THEN (IF item.grandparentTitle # 0 THEN item.grandparentTitle
        ELSE IF item.parentTitle # 0 THEN item.parentTitle
        ELSE item.title)
  ELSE item.title

\* top is a most frequent name of the events of S, or the placeholder when no
\* event of S has a name
IsMostFrequent(top, S) ==
  LET names == {CountedUnder(data[i]) : i \in S} \ {0}
      plays == [n \in names |-> Cardinality({i \in S : CountedUnder(data[i]) = n})]
  IN  IF names = {} THEN top = NoneItem
      ELSE top \in names /\ \A n \in names : plays[n] <= plays[top]

\* C19: the topItem of every MonthlyReport is a name with the maximal number of
\* events in the month, an episode being counted under its series title, else its
\* parent title, else its own title, and any other event under its own title; it is
\* 'None' only when no event of the month has a name.
C19_TopItem ==
  ReportsReturned =>
    \A k \in ReportIndices :
      \A m \in 1..Len(reports[k].monthlyBreakdown) :
        LET mr == reports[k].monthlyBreakdown[m]
        IN  IsMostFrequent(mr.topItem,
                           MonthEvents(reports[k].year,
                                       MonthIndexOfKey(reports[k].year, mr.monthKey)))

(* -------------------------------- C20 ---------------------------------- *)

\* the input with every missing or NaN durationMinutes replaced by 0
ZeroedData ==
  [i \in Indices |->
     IF HasNumericDuration(data[i]) THEN data[i]
     ELSE [data[i] EXCEPT !.durationMinutes = Num(0)]]

\* the numeric durations of a set of events, summed
MinutesOf(S) ==
  SumOver([i \in Indices |->
             IF HasNumericDuration(data[i]) THEN data[i].durationMinutes.val ELSE 0], S)

\* C20: replacing every missing or NaN durationMinutes by 0 changes neither the
\* summary nor the reports: such an event is counted in totalPlays and in its
\* year's plays, and adds 0 to the summary total, to its top-list entry's
\* totalDurationMinutes and to its year's and month's totalHours.
C20_InvalidDurationIsZero ==
  BothReturned =>
    /\ summary = processHistoryData(ZeroedData)
    /\ reports = processReports(ZeroedData)
    /\ summary.totalPlays = Len(data)
    /\ summary.totalDurationHours = RoundDiv(MinutesOf(Indices), 60)
    /\ SumOver([k \in 1..Len(summary.mediaTypeDistribution) |->
                  summary.mediaTypeDistribution[k].value],
               1..Len(summary.mediaTypeDistribution)) = Len(data)
    /\ \A k \in 1..Len(summary.topMovies) :
         /\ summary.topMovies[k].count = Cardinality(MovieGroup(summary.topMovies[k].name))
         /\ summary.topMovies[k].totalDurationMinutes
              = MinutesOf(MovieGroup(summary.topMovies[k].name))
    /\ \A k \in 1..Len(summary.topShows) :
         /\ summary.topShows[k].count = Cardinality(ShowGroup(summary.topShows[k].name))
         /\ summary.topShows[k].totalDurationMinutes
              = MinutesOf(ShowGroup(summary.topShows[k].name))
    /\ SumCounts(summary.playsByHour) = Cardinality(ValidIndices)
    /\ \A k \in ReportIndices :
         /\ reports[k].totalPlays = Cardinality(YearEvents(reports[k].year))
         /\ reports[k].totalHours = HoursOf(YearEvents(reports[k].year))
         /\ \A m \in 1..Len(reports[k].monthlyBreakdown) :
              LET mr == reports[k].monthlyBreakdown[m]
                  S  == MonthEvents(reports[k].year,
                                    MonthIndexOfKey(reports[k].year, mr.monthKey))
              IN  mr.playCount = Cardinality(S) /\ mr.totalHours = HoursOf(S)

\* a movie played with a missing, a NaN and a numeric duration
C20_Witness ==
  /\ BothReturned
  /\ \E i \in Indices : data[i].durationMinutes.tag = "undefined"
  /\ \E i \in Indices : data[i].durationMinutes.tag = "NaN"
  /\ \E k \in 1..Len(summary.topMovies) :
       summary.topMovies[k].count = 3 /\ summary.topMovies[k].totalDurationMinutes > 0
  /\ Len(reports) = 1 /\ reports[1].totalPlays = 3 /\ reports[1].totalHours > 0

(* -------------------------------- C22 ---------------------------------- *)

\* the key YYYY-MM-DD of a local calendar date, month and day on two digits
IsoDate(date) ==
  LET y == GetFullYear(date)
      m == GetMonth(date) + 1
      d == GetDate(date)
  IN  <<y \div 1000, (y \div 100) % 10, (y \div 10) % 10, y % 10, Dash,
        m \div 10, m % 10, Dash, d \div 10, d % 10>>

\* C22: the dailyActivity of every yearly report has exactly one entry per distinct
\* local calendar date of that year with an event, keyed YYYY-MM-DD, whose count is
\* the number of that year's events on that date, and no other entry.
C22_DailyActivity ==
  BothReturned =>
    \A k \in ReportIndices :
      LET da == reports[k].dailyActivity
          S  == YearEvents(reports[k].year)
      IN  /\ \A a, b \in 1..Len(da) : a # b => da[a].date # da[b].date
          /\ {da[a].date : a \in 1..Len(da)} = {IsoDate(data[i].date) : i \in S}
          /\ \A a \in 1..Len(da) :
               da[a].count = Cardinality({i \in S : IsoDate(data[i].date) = da[a].date})

\* a year with two events on one date and one event on another
C22_Witness ==
  /\ BothReturned
  /\ \E k \in ReportIndices :
       /\ Len(reports[k].dailyActivity) = 2
       /\ \E a \in 1..2 : reports[k].dailyActivity[a].count = 2
       /\ \E a \in 1..2 : reports[k].dailyActivity[a].count = 1

(* -------------------------------- C23 ---------------------------------- *)

\* the media kind of an event, an unset kind being 'unknown'
KindOf(item) == IF item.type = "" THEN "unknown" ELSE item.type

KindCount(kind) == Cardinality({i \in Indices : KindOf(data[i]) = kind})

\* C23: mediaTypeDistribution has one entry per media kind that has at least one
\* event, an event with unset kind counting as 'unknown'; every entry's value is
\* the number of events of its kind, which is strictly positive.
C23_MediaKinds ==
  SummaryReturned =>
    LET dist == summary.mediaTypeDistribution
    IN  /\ \A a, b \in 1..Len(dist) : a # b => dist[a].name # dist[b].name
        /\ \A a \in 1..Len(dist) :
             dist[a].value > 0 /\ dist[a].value = KindCount(dist[a].name)
        /\ \A i \in Indices : \E a \in 1..Len(dist) : dist[a].name = KindOf(data[i])

\* an event of unset kind and an event of kind 'unknown' share one entry
C23_Witness ==
  /\ SummaryReturned
  /\ \E i \in Indices : data[i].type = ""
  /\ \E i \in Indices : data[i].type = "unknown"
  /\ Len(summary.mediaTypeDistribution) = 2
  /\ \E a \in 1..2 :
       /\ summary.mediaTypeDistribution[a].name = "unknown"
       /\ summary.mediaTypeDistribution[a].value = 2

(* -------------------------------- C24 ---------------------------------- *)

\* the key YYYY-MM of the month of a local date, the month on two digits
IsoMonth(date) ==
  LET y == GetFullYear(date)
      m == GetMonth(date) + 1
  IN  <<y \div 1000, (y \div 100) % 10, (y \div 10) % 10, y % 10, Dash, m \div 10, m % 10>>

\* C24: playsByMonth has exactly one entry per year-month, keyed YYYY-MM, that has
\* an event with a valid timestamp; its count is the number of such events in the
\* month, and the entries are in strictly ascending order of key.
C24_PlaysByMonth ==
  SummaryReturned =>
    LET pm == summary.playsByMonth
    IN  /\ {pm[a].month : a \in 1..Len(pm)} = {IsoMonth(data[i].date) : i \in ValidIndices}
        /\ \A a \in 1..Len(pm) :
             pm[a].count =
               Cardinality({i \in ValidIndices : IsoMonth(data[i].date) = pm[a].month})
        /\ \A a, b \in 1..Len(pm) : a < b => LexLess(pm[a].month, pm[b].month)

\* three months over two years, given latest first
C24_Witness ==
  /\ SummaryReturned
  /\ Len(summary.playsByMonth) = 3
  /\ ValidIndices = Indices
  /\ data[1].date.time > data[2].date.time
  /\ data[2].date.time > data[3].date.time

(* -------------------------------- C25 ---------------------------------- *)

MockReturned == mock.pc = "returned"

\* C25: generateMockData returns exactly 800 events, each with a non-empty
\* title, a valid timestamp, a non-negative duration and kind movie or episode,
\* in order of non-decreasing timestamp, whatever the random draws.
C25_MockData ==
  MockReturned =>
    LET items == mock.items
    IN  /\ Len(items) = 800
        /\ \A i \in 1..Len(items) :
             /\ items[i].title # 0
             /\ items[i].date.tag = "valid"
             /\ items[i].durationMinutes.tag = "number"
             /\ items[i].durationMinutes.val >= 0
             /\ items[i].type \in {"movie", "episode"}
        /\ \A i \in 1..(Len(items) - 1) : items[i].date.time <= items[i + 1].date.time

\* a returned list with both kinds, two events of one timestamp and two of
\* different timestamps
C25_Witness ==
  /\ MockReturned
  /\ \E i, j \in 1..Len(mock.items) :
       mock.items[i].type = "movie" /\ mock.items[j].type = "episode"
  /\ \E i \in 1..(Len(mock.items) - 1) :
       mock.items[i].date.time = mock.items[i + 1].date.time
  /\ \E i \in 1..(Len(mock.items) - 1) :
       mock.items[i].date.time < mock.items[i + 1].date.time

(* -------------------------------- C26 ---------------------------------- *)

SumValues(points) ==
  LET value  == [k \in 1..Len(points) |-> points[k].value]
      rows   == 1..((Len(points) + 23) \div 24)
      rowSum == [r \in rows |-> SumOver(value, {k \in 1..Len(points) : (k + 23) \div 24 = r})]
  IN  SumOver(rowSum, rows)

\* the sum of the playCount fields of a list of monthly reports
SumPlayCounts(months) == SumOver([k \in 1..Len(months) |-> months[k].playCount], 1..Len(months))

\* C27: within every yearly report the four views count the same events: the sum
\* of the 168 heatmapData values, the sum of the dailyActivity counts and the sum of
\* playCount over monthlyBreakdown each equal totalPlays, and activeDays is the
\* number of dailyActivity entries.
C27_ViewsAgree ==
  BothReturned =>
    \A r \in ReportIndices :
      /\ Len(reports[r].heatmapData) = 168
      /\ SumValues(reports[r].heatmapData) = reports[r].totalPlays
      /\ SumCounts(reports[r].dailyActivity) = reports[r].totalPlays
      /\ SumPlayCounts(reports[r].monthlyBreakdown) = reports[r].totalPlays
      /\ reports[r].activeDays = Len(reports[r].dailyActivity)

\* a year of three events over two months, two of them on one date
C27_Witness ==
  /\ BothReturned
  /\ \E r \in ReportIndices :
       /\ reports[r].totalPlays = 3
       /\ Len(reports[r].dailyActivity) = 2
       /\ Len(reports[r].monthlyBreakdown) = 2

(* -------------------------------- C28 ---------------------------------- *)

\* the movie events with a non-empty title, and the episode events
TitledMovies == {i \in Indices : KindOf(data[i]) = "movie" /\ data[i].title # 0}

EpisodeEvents == {i \in Indices : KindOf(data[i]) = "episode"}

\* the events that belong to neither
Unlisted == Indices \ (TitledMovies \cup EpisodeEvents)

Displayed == IF Len(reports) > 0 THEN Min(view.yearIndex, Max(0, Len(reports) - 1)) ELSE 0

\* C29: in the Reports view, after any filter changes and previous/next clicks,
\* the displayed index is a valid index of the report list whenever the list is
\* non-empty, and every click on an enabled previous (next) control moves the
\* displayed report by exactly one position, to the adjacent older (newer) year.
C29_Navigation ==
  [][/\ (called' = "Reports" /\ ~view'.stale /\ Len(reports') > 0)
          => Displayed' \in 0..(Len(reports') - 1)
     /\ ClickPrev => /\ Displayed' = Displayed + 1
                     /\ reports'[Displayed' + 1].year < reports[Displayed + 1].year
     /\ ClickNext => /\ Displayed' = Displayed - 1
                     /\ reports'[Displayed' + 1].year > reports[Displayed + 1].year]_vars

(* -------------------------------- C30 ---------------------------------- *)

\* a request fails when there is no response, the status is an HTTP error, the
\* text is a proxy's error page, an error response, or cannot be parsed
Fails(response) ==
  \/ response.rejected
  \/ response.status # 200
  \/ response.text \notin {"JSON with Metadata", "JSON without Metadata",
                            "XML with Video nodes", "XML without nodes"}

\* the message of the error a failed request ends in
MessageOf(response) ==
  IF response.rejected THEN "Failed to fetch"
  ELSE IF response.status = 401 THEN "Unauthorized: Invalid X-Plex-Token."
  ELSE IF response.status = 404 THEN "Server endpoint not found. Check your URL."
  ELSE IF response.status # 200 THEN "HTTP status"
  ELSE IF response.text \in {"403 Forbidden page", "Proxy Error page"}
  THEN "Proxy rejected request"
  ELSE IF response.text = "XML Response code 500" THEN "Plex API Error"
  ELSE "Invalid response format received."

Attempted == Len(fetch.attempts)

\* C30: fetchPlexHistory tries the strategies strictly in their listed order,
\* returns the result of the first one that succeeds without trying a later one,
\* moves on to the next strategy after any failure, and when every strategy has
\* failed throws the error of the last strategy attempted.
C30_StrategyLoop ==
  /\ \A k \in 1..Attempted : fetch.attempts[k].strategy = CONNECTION_STRATEGIES[k]
  /\ fetch.pc = "loop" =>
       /\ \A k \in 1..Attempted : Fails(fetch.attempts[k].response)
       /\ fetch.index = Attempted + 1
  /\ fetch.pc = "returned" =>
       /\ Attempted >= 1
       /\ \A k \in 1..(Attempted - 1) : Fails(fetch.attempts[k].response)
       /\ ~Fails(fetch.attempts[Attempted].response)
       /\ fetch.value = IF fetch.attempts[Attempted].response.text
                              \in {"JSON with Metadata", "XML with Video nodes"}
                        THEN "items" ELSE "[]"
  /\ fetch.pc = "thrown" =>
       /\ Attempted = 3
       /\ \A k \in 1..Attempted : Fails(fetch.attempts[k].response)
       /\ fetch.result.at = 3
       /\ fetch.result.message = MessageOf(fetch.attempts[3].response)

\* every strategy has failed, the first one with an Unauthorized response and
\* each in a different way
C30_Witness ==
  /\ fetch.pc = "thrown"
  /\ fetch.attempts[1].response.status = 401
  /\ fetch.attempts[2].response.rejected
  /\ fetch.attempts[3].response.text = "plain text"

=============================================================================
